---- MODULE Spec2Model ----
(***************************************************************************)
(* Binder Grid Manager of pokemon-card-binder.                             *)
(*                                                                         *)
(* State: the binder shown by App (currentBinder, passed to BinderGrid as  *)
(* `binder`), BinderGrid's viewed page and notification, and whether a     *)
(* notification timer is pending.  `last` records the handler that ran     *)
(* last and the branch it took.  One action per event handler.  Array      *)
(* indices are 0-based as in the source; At(cp, i) reads element i of a    *)
(* TLA+ sequence.                                                          *)
(*                                                                         *)
(* The repository holds two revisions of the BinderGrid component: the     *)
(* paged one (pages, maxPage, clearing) and the unpaged one that renders   *)
(* every slot (src/components/BinderGrid.tsx).  `revision` says which one  *)
(* App mounts; it never changes.  App's own handlers run in both.          *)
(*                                                                         *)
(* Left out: binder id/name/description (title editing), the clear         *)
(* confirmation dialog (the handlers run on confirm), drag overlay state,  *)
(* persistence and export, and App's card lookup map (it only decides      *)
(* whether a slot shows its remove button: here every occupied slot of     *)
(* the viewed page does).                                                  *)
(*                                                                         *)
(* The second half of the module is the Card Search Client: the calls of   *)
(* PokemonTCGService made by CardSearch, the service's cache and its map   *)
(* of requests in flight, and the clock.  The two halves share no state,   *)
(* so each has its own specification: Spec and SpecSearch.                 *)
(***************************************************************************)
EXTENDS Integers, Sequences, FiniteSets, TLC

VARIABLES revision, binder, page, notification, timerPending, last

vars == <<revision, binder, page, notification, timerPending, last>>

\* the search client: clock, cache, requests in flight, search calls
VARIABLES now, cache, pendingRequests, searches

searchVars == <<now, cache, pendingRequests, searches>>

\* the CardSearch component: its React state, and the callbacks that
\* handleModeChange has handed to setTimeout
VARIABLES ui, timeouts

uiVars == <<ui, timeouts>>

(***************************************************************************)
(* Bounds                                                                  *)
(***************************************************************************)
MaxTime == 1       \* timestamps are 0..MaxTime

(***************************************************************************)
(* Catalog cards the user can select (card.id), and cardId: null           *)
(***************************************************************************)
CardIds == {"base1-4", "xy7-54"}
NoCard == "null"

(***************************************************************************)
(* Template catalog (input data: data/templates/index.json).  maxPage = 0  *)
(* stands for a template record without a maxPage field.                   *)
(***************************************************************************)
Templates ==
  { [id |-> "wide",  rows |-> 1, cols |-> 2, maxPage |-> 2],
    [id |-> "tall",  rows |-> 2, cols |-> 1, maxPage |-> 2],
    [id |-> "plain", rows |-> 1, cols |-> 2, maxPage |-> 0] }

TemplateIds == {t.id : t \in Templates}
UnknownTemplateId == "missing"

At(cp, i) == cp[i + 1]

(***************************************************************************)
(* new Date().toISOString(): a reading of the clock taken after stamp `u`  *)
(* was written: the same millisecond or a later one.                       *)
(***************************************************************************)
NewStamps(u) == {t \in 0..MaxTime : t >= u /\ t <= u + 1}

\* mutant: the page is one slot short
createEmptyPageShort(rows, cols) ==
  [k \in 1..(rows * cols - 1) |->
     [cardId |-> NoCard, row |-> (k - 1) \div cols, col |-> (k - 1) % cols,
      isEmpty |-> TRUE]]

\* mutant: two pages of slots instead of one
createEmptyPageTwice(rows, cols) ==
  [k \in 1..(2 * rows * cols) |->
     [cardId |-> NoCard,
      row |-> ((k - 1) % (rows * cols)) \div cols,
      col |-> (k - 1) % cols,
      isEmpty |-> TRUE]]

(***************************************************************************)
(* createEmptyPage(rows, cols)                                             *)
(***************************************************************************)
createEmptyPage(rows, cols) ==
  [k \in 1..(rows * cols) |->
     [cardId |-> NoCard, row |-> (k - 1) \div cols, col |-> (k - 1) % cols,
      isEmpty |-> TRUE]]

(***************************************************************************)
(* DataService.createBinderFromTemplate, for a template that was found     *)
(***************************************************************************)
createBinderFromTemplate(template, stamp) ==
  LET totalSlots == template.rows * template.cols
  IN [rows |-> template.rows,
      cols |-> template.cols,
      cardPositions |->
        [k \in 1..totalSlots |->
           [cardId |-> NoCard,
            row |-> (k - 1) \div template.cols,
            col |-> (k - 1) % template.cols,
            isEmpty |-> TRUE]],
      template |-> template.id,
      maxPage |-> template.maxPage,
      updatedAt |-> stamp]

(***************************************************************************)
(* BinderGrid render-time values                                           *)
(***************************************************************************)
pageSize == binder.rows * binder.cols

\* Math.ceil(binder.cardPositions.length / pageSize)
totalPages == (Len(binder.cardPositions) + pageSize - 1) \div pageSize

\* binder.maxPage || 1
maxPage == IF binder.maxPage = 0 THEN 1 ELSE binder.maxPage

\* indices of the slots rendered for the viewed page (slice of the array)
slotIds ==
  {i \in 0..(Len(binder.cardPositions) - 1) :
     i >= (page - 1) * pageSize /\ i < page * pageSize}

(***************************************************************************)
(* History: the handler that ran last and the branch it took; for          *)
(* handleAddCard also whether the handler that ran before it was           *)
(* handleClearBinder.                                                      *)
(***************************************************************************)
Did(op, res) == [op |-> op, res |-> res, afterClearAll |-> FALSE]

(***************************************************************************)
(* The search client before any search: nothing cached, nothing in         *)
(* flight, no call made.                                                   *)
(***************************************************************************)
MaxCalls == 2      \* search calls made in a run

CallIds == 1..MaxCalls

NoResult == [data |-> <<>>, totalCount |-> 0]

\* A search call: where it stands, its arguments, the request it is at
\* (idx), and its result; `fetched` counts the network calls it issued
\* and `fromCache` says that its result came out of the cache.
Idle ==
  [status |-> "idle", strategy |-> "", page |-> 0, idx |-> 0, fetched |-> 0,
   fromCache |-> FALSE, result |-> NoResult]

\* CardSearch as mounted: the useState initial values
UIInit ==
  [searchTerm |-> "", searchResults |-> <<>>, isLoading |-> FALSE,
   hasSearched |-> FALSE, searchMode |-> "newest", totalCount |-> 0,
   currentPage |-> 1]

ServiceInit ==
  /\ now = 0
  /\ cache = [k \in {} |-> NoResult]
  /\ pendingRequests = [k \in {} |-> 0]
  /\ searches = [c \in CallIds |-> Idle]
  /\ ui = UIInit
  /\ timeouts = <<>>

DidAdd(res) ==
  [op |-> "handleAddCard", res |-> res,
   afterClearAll |-> (last.op = "handleClearBinder")]

Init ==
  /\ revision \in {"paged", "unpaged"}
  /\ binder \in {createBinderFromTemplate(t, 0) : t \in Templates}
  /\ page = 1
  /\ notification = ""
  /\ timerPending = FALSE
  /\ last = Did("init", "ok")
  /\ ServiceInit

(***************************************************************************)
(* Notification texts                                                      *)
(***************************************************************************)
CannotAddCard == "Cannot add card: binder is full"
CannotAddPage == "Cannot add new page: binder is full"
PageCleared == "Page cleared successfully!"
BinderCleared == "Entire binder cleared successfully!"

\* mutant: the empty flag is not cleared
filledKeepsFlag(pos, card) == [pos EXCEPT !.cardId = card]

\* { ...pos, cardId: card.id, isEmpty: false }
filled(pos, card) == [pos EXCEPT !.cardId = card, !.isEmpty = FALSE]

\* mutant: the emptied slot forgets its place on the page
emptiedAtOrigin(pos) ==
  [cardId |-> NoCard, row |-> 0, col |-> 0, isEmpty |-> TRUE]

\* { ...pos, cardId: null, isEmpty: true }
emptied(pos) == [pos EXCEPT !.cardId = NoCard, !.isEmpty = TRUE]

\* mutant: the scan starts one slot late
firstEmptySlotSkipFirst(cp, i, end) ==
  LET found == {j \in 0..(Len(cp) - 1) :
                  j > i /\ j < end /\ At(cp, j).isEmpty}
  IN IF found = {} THEN -1 ELSE CHOOSE j \in found : \A k \in found : j <= k

\* mutant: the scan starts at slot 0 whatever the start index
firstEmptySlotFromZero(cp, i, end) ==
  LET found == {j \in 0..(Len(cp) - 1) : j < end /\ At(cp, j).isEmpty}
  IN IF found = {} THEN -1 ELSE CHOOSE j \in found : \A k \in found : j <= k

(***************************************************************************)
(* The scanning loops of handleAddCard and Array.findIndex: the first      *)
(* index in [i, end) that is inside the array and whose slot isEmpty,      *)
(* or -1.                                                                  *)
(***************************************************************************)
RECURSIVE firstEmptySlot(_, _, _)
firstEmptySlot(cp, i, end) ==
  IF i >= end \/ i >= Len(cp) THEN -1
  ELSE IF At(cp, i).isEmpty THEN i
  ELSE firstEmptySlot(cp, i + 1, end)

\* onBinderUpdate({...binder, cardPositions: cp, updatedAt: new Date()})
onBinderUpdate(cp) ==
  \E stamp \in NewStamps(binder.updatedAt) :
    binder' = [binder EXCEPT !.cardPositions = cp, !.updatedAt = stamp]

\* mutant: off by one, a page beyond the ceiling is allowed
binderIsFullOffByOne == totalPages > maxPage

\* totalPages >= maxPage: no page may be added
binderIsFull == totalPages >= maxPage

\* mutant: 0-based page number
pageOfIndexZeroBased(i) == i \div pageSize

\* Math.floor(i / pageSize) + 1
pageOfIndex(i) == (i \div pageSize) + 1

(***************************************************************************)
(* BinderGrid.handleAddCard(card)  -- placeCard                            *)
(***************************************************************************)
handleAddCard(card) ==
  LET cp == binder.cardPositions
      startIdx == (page - 1) * pageSize
      inCurrent == firstEmptySlot(cp, startIdx, startIdx + pageSize)
      anywhere == firstEmptySlot(cp, 0, Len(cp))
      newSlots == [createEmptyPage(binder.rows, binder.cols)
                     EXCEPT ![1] = filled(@, card)]
  IN /\ UNCHANGED timerPending
     /\ IF inCurrent # -1
        THEN /\ onBinderUpdate([cp EXCEPT ![inCurrent + 1] = filled(@, card)])
             /\ page' = page
             /\ notification' = ""
             /\ last' = DidAdd("currentPage")
        ELSE IF anywhere # -1
        THEN /\ onBinderUpdate([cp EXCEPT ![anywhere + 1] = filled(@, card)])
             /\ page' = pageOfIndex(anywhere)
             /\ notification' = ""
             /\ last' = DidAdd("otherPage")
        ELSE IF binderIsFull
        THEN /\ notification' = CannotAddCard
             /\ UNCHANGED <<binder, page>>
             /\ last' = DidAdd("full")
        ELSE /\ onBinderUpdate(cp \o newSlots)
             /\ page' = totalPages + 1
             /\ notification' = ""
             /\ last' = DidAdd("newPage")

\* event.over == null: the drop was outside every slot
NoOver == -1

\* mutant: no early return when a slot is dropped on itself
handleDragEndNoSameCheck(active, over) ==
  LET cp == binder.cardPositions
  IN /\ UNCHANGED <<page, notification, timerPending>>
     /\ IF over = NoOver
        THEN /\ UNCHANGED binder
             /\ last' = Did("handleDragEnd", "noOver")
        ELSE IF active >= Len(cp) \/ over >= Len(cp)
        THEN /\ UNCHANGED binder
             /\ last' = Did("handleDragEnd", "ignored")
        ELSE /\ onBinderUpdate([cp EXCEPT ![active + 1] = At(cp, over),
                                          ![over + 1] = At(cp, active)])
             /\ last' = Did("handleDragEnd",
                            IF active = over THEN "same" ELSE "swapped")

(***************************************************************************)
(* BinderGrid.handleDragEnd  -- swapSlots.  `active` and `over` are the    *)
(* slot indices parsed from the event's ids; NoOver is a drop outside      *)
(* every slot (event.over == null).                                        *)
(***************************************************************************)
handleDragEnd(active, over) ==
  LET cp == binder.cardPositions
  IN /\ UNCHANGED <<page, notification, timerPending>>
     /\ IF over = NoOver \/ active = over
        THEN /\ UNCHANGED binder
             /\ last' = Did("handleDragEnd",
                            IF over = NoOver THEN "noOver" ELSE "same")
        ELSE IF active >= Len(cp) \/ over >= Len(cp)
        THEN /\ UNCHANGED binder
             /\ last' = Did("handleDragEnd", "ignored")
        ELSE /\ onBinderUpdate([cp EXCEPT ![active + 1] = At(cp, over),
                                          ![over + 1] = At(cp, active)])
             /\ last' = Did("handleDragEnd", "swapped")

(***************************************************************************)
(* handleDragEnd of the unpaged BinderGrid revision: exchanges the cardIds *)
(* in place and recomputes isEmpty as !cardId.  It has no range check: an  *)
(* index past the array reads .cardId of undefined, which throws a         *)
(* TypeError before anything is assigned or reported to App.               *)
(***************************************************************************)
handleDragEndInPlace(active, over) ==
  LET cp == binder.cardPositions
  IN /\ UNCHANGED <<page, notification, timerPending>>
     /\ IF over = NoOver \/ active = over
        THEN /\ UNCHANGED binder
             /\ last' = Did("handleDragEndInPlace", "none")
        ELSE IF active >= Len(cp) \/ over >= Len(cp)
        THEN /\ UNCHANGED binder
             /\ last' = Did("handleDragEndInPlace", "TypeError")
        ELSE LET temp == At(cp, active).cardId
             IN /\ onBinderUpdate(
                     [cp EXCEPT
                        ![active + 1] =
                           [@ EXCEPT
                              !.cardId = At(cp, over).cardId,
                              !.isEmpty = (At(cp, over).cardId = NoCard)],
                        ![over + 1] =
                           [@ EXCEPT !.cardId = temp,
                                     !.isEmpty = (temp = NoCard)]])
                /\ last' = Did("handleDragEndInPlace", "swapped")

\* mutant: the cleared range runs one slot into the next page
handleClearPageOneMore ==
  LET cp == binder.cardPositions
      startIdx == (page - 1) * pageSize
      endIdx == page * pageSize + 1
  IN /\ onBinderUpdate(
          [k \in 1..Len(cp) |->
             IF k - 1 >= startIdx /\ k - 1 < endIdx THEN emptied(cp[k])
             ELSE cp[k]])
     /\ notification' = PageCleared
     /\ timerPending' = TRUE
     /\ last' = Did("handleClearPage", "ok")
     /\ UNCHANGED page

(***************************************************************************)
(* BinderGrid.handleClearPage  -- clearPage of the viewed page             *)
(***************************************************************************)
handleClearPage ==
  LET cp == binder.cardPositions
      startIdx == (page - 1) * pageSize
      endIdx == page * pageSize
  IN /\ onBinderUpdate(
          [k \in 1..Len(cp) |->
             IF k - 1 >= startIdx /\ k - 1 < endIdx THEN emptied(cp[k])
             ELSE cp[k]])
     /\ notification' = PageCleared
     /\ timerPending' = TRUE
     /\ last' = Did("handleClearPage", "ok")
     /\ UNCHANGED page

\* mutant: the view is not sent back to page 1
handleClearBinderKeepsPage ==
  LET cp == binder.cardPositions
  IN /\ onBinderUpdate([k \in 1..Len(cp) |-> emptied(cp[k])])
     /\ page' = page
     /\ notification' = BinderCleared
     /\ timerPending' = TRUE
     /\ last' = Did("handleClearBinder", "ok")

(***************************************************************************)
(* BinderGrid.handleClearBinder  -- clearAll                               *)
(***************************************************************************)
handleClearBinder ==
  LET cp == binder.cardPositions
  IN /\ onBinderUpdate([k \in 1..Len(cp) |-> emptied(cp[k])])
     /\ page' = 1
     /\ notification' = BinderCleared
     /\ timerPending' = TRUE
     /\ last' = Did("handleClearBinder", "ok")

(***************************************************************************)
(* A callback of setTimeout(() => setNotification(""), 3000) fires.  The   *)
(* clear handlers each start one; timers are not counted, so after one     *)
(* fires another may or may not still be pending.                          *)
(***************************************************************************)
notificationTimeout ==
  /\ timerPending
  /\ timerPending' \in BOOLEAN
  /\ notification' = ""
  /\ last' = Did("notificationTimeout", "ok")
  /\ UNCHANGED <<binder, page>>

(***************************************************************************)
(* onRemoveCard of a rendered slot; the remove button exists only on a     *)
(* slot that shows a card.                                                 *)
(***************************************************************************)
onRemoveCard(slotIndex) ==
  LET cp == binder.cardPositions
  IN /\ slotIndex \in slotIds
     /\ At(cp, slotIndex).cardId # NoCard
     /\ onBinderUpdate([cp EXCEPT ![slotIndex + 1] = emptied(@)])
     /\ last' = Did("onRemoveCard", "ok")
     /\ UNCHANGED <<page, notification, timerPending>>

(***************************************************************************)
(* handleRemoveCard of the unpaged BinderGrid revision                     *)
(***************************************************************************)
handleRemoveCard(slotIndex) ==
  LET cp == binder.cardPositions
  IN /\ slotIndex \in 0..(Len(cp) - 1)
     /\ At(cp, slotIndex).cardId # NoCard
     /\ onBinderUpdate([cp EXCEPT ![slotIndex + 1] = emptied(@)])
     /\ last' = Did("handleRemoveCard", "ok")
     /\ UNCHANGED <<page, notification, timerPending>>

\* "Prev" button (disabled on page 1)
prevPage ==
  /\ page # 1
  /\ notification' = ""
  /\ page' = IF page > 1 THEN page - 1 ELSE 1
  /\ last' = Did("prevPage", "ok")
  /\ UNCHANGED <<binder, timerPending>>

\* mutant: Next on the last page appends a page whatever the ceiling
nextPageNoCeiling ==
  LET cp == binder.cardPositions
  IN /\ UNCHANGED timerPending
     /\ IF page = totalPages
        THEN /\ onBinderUpdate(
                  cp \o createEmptyPage(binder.rows, binder.cols))
             /\ page' = page + 1
             /\ notification' = ""
             /\ last' = Did("nextPage", "newPage")
        ELSE /\ page' = IF page < totalPages THEN page + 1 ELSE totalPages
             /\ notification' = ""
             /\ UNCHANGED binder
             /\ last' = Did("nextPage", "moved")

\* "Next" button; on the last page it appends a page  -- appendPage
nextPage ==
  LET cp == binder.cardPositions
  IN /\ UNCHANGED timerPending
     /\ IF page = totalPages
        THEN IF binderIsFull
             THEN /\ notification' = CannotAddPage
                  /\ UNCHANGED <<binder, page>>
                  /\ last' = Did("nextPage", "full")
             ELSE /\ onBinderUpdate(
                       cp \o createEmptyPage(binder.rows, binder.cols))
                  /\ page' = page + 1
                  /\ notification' = ""
                  /\ last' = Did("nextPage", "newPage")
        ELSE /\ page' = IF page < totalPages THEN page + 1 ELSE totalPages
             /\ notification' = ""
             /\ UNCHANGED binder
             /\ last' = Did("nextPage", "moved")

(***************************************************************************)
(* App.handleCardSelect (selectedSlot is never set, so it is always null)  *)
(***************************************************************************)
handleCardSelect(card) ==
  LET cp == binder.cardPositions
      targetIndex == firstEmptySlot(cp, 0, Len(cp))
  IN /\ UNCHANGED <<page, notification, timerPending>>
     /\ IF targetIndex # -1
        THEN /\ onBinderUpdate([cp EXCEPT ![targetIndex + 1] = filled(@, card)])
             /\ last' = Did("handleCardSelect", "placed")
        ELSE /\ UNCHANGED binder
             /\ last' = Did("handleCardSelect", "full")

\* mutant: an unknown template id falls back to some template of the list
createNewBinderFallsBack(templateId) ==
  /\ UNCHANGED <<page, notification, timerPending>>
  /\ \E t \in Templates, stamp \in NewStamps(binder.updatedAt) :
       /\ (t.id = templateId \/ templateId \notin TemplateIds)
       /\ binder' = createBinderFromTemplate(t, stamp)
  /\ last' = Did("createNewBinder",
                 IF templateId \in TemplateIds THEN "ok" ELSE "notFound")

(***************************************************************************)
(* App.createNewBinder(templateId): the not-found error thrown by          *)
(* createBinderFromTemplate is caught and logged.  BinderGrid stays        *)
(* mounted, so its page state is kept.                                     *)
(***************************************************************************)
createNewBinder(templateId) ==
  /\ UNCHANGED <<page, notification, timerPending>>
  /\ IF \E t \in Templates : t.id = templateId
     THEN /\ \E t \in Templates, stamp \in NewStamps(binder.updatedAt) :
               /\ t.id = templateId
               /\ binder' = createBinderFromTemplate(t, stamp)
          /\ last' = Did("createNewBinder", "ok")
     ELSE /\ UNCHANGED binder
          /\ last' = Did("createNewBinder", "notFound")

\* an index no layout of the catalog reaches (a stale drag event)
StaleIndex == 4

DragIndices == slotIds \cup {StaleIndex}

AllIndices == 0..(Len(binder.cardPositions) - 1)

\* the unpaged revision renders every slot
AllDragIndices == AllIndices \cup {StaleIndex}

\* the handlers of the mounted BinderGrid revision, and App's
Paged == revision = "paged" /\ UNCHANGED <<revision, searchVars, uiVars>>

Unpaged == revision = "unpaged" /\ UNCHANGED <<revision, searchVars, uiVars>>

InApp == UNCHANGED <<revision, searchVars, uiVars>>

Next ==
  \/ \E card \in CardIds : Paged /\ handleAddCard(card)
  \/ \E a \in DragIndices, o \in DragIndices \cup {NoOver} :
       Paged /\ handleDragEnd(a, o)
  \/ Paged /\ handleClearPage
  \/ Paged /\ handleClearBinder
  \/ Paged /\ notificationTimeout
  \/ \E i \in 0..(StaleIndex - 1) : Paged /\ onRemoveCard(i)
  \/ Paged /\ prevPage
  \/ Paged /\ nextPage
  \/ \E a \in AllDragIndices, o \in AllDragIndices \cup {NoOver} :
       Unpaged /\ handleDragEndInPlace(a, o)
  \/ \E i \in 0..(StaleIndex - 1) : Unpaged /\ handleRemoveCard(i)
  \/ \E card \in CardIds : InApp /\ handleCardSelect(card)
  \/ \E id \in TemplateIds \cup {UnknownTemplateId} :
       InApp /\ createNewBinder(id)

Spec == Init /\ [][Next]_vars

(***************************************************************************)
(* Vocabulary of the properties                                            *)
(***************************************************************************)
Positions == binder.cardPositions

Indices(cp) == 0..(Len(cp) - 1)

Occupied(pos) == pos.cardId # NoCard

EmptyIndices(cp, among) == {i \in among \cap Indices(cp) : ~Occupied(At(cp, i))}

Lowest(S) == CHOOSE i \in S : \A j \in S : i <= j

AllOccupied == \A i \in Indices(Positions) : Occupied(At(Positions, i))

\* position record with the card put in it
WithCard(pos, card) ==
  [cardId |-> card, row |-> pos.row, col |-> pos.col, isEmpty |-> FALSE]

\* the step just taken was handleAddCard
Placed == last'.op = "handleAddCard"

(***************************************************************************)
(* C1: in every reachable state the number of positions is a positive      *)
(* multiple of pageSize = rows * cols.                                     *)
(***************************************************************************)
C1_WholePages ==
  /\ Len(Positions) > 0
  /\ Len(Positions) % (binder.rows * binder.cols) = 0

C1_Witness ==
  /\ last.op = "handleAddCard"
  /\ last.res = "newPage"
  /\ Len(Positions) = 2 * binder.rows * binder.cols

(***************************************************************************)
(* C2: placeCard on a layout whose slots are all occupied and whose        *)
(* totalPages equals its maxPage reports the capacity error and changes    *)
(* neither the layout (positions, page count, update timestamp) nor the    *)
(* viewed page.                                                            *)
(***************************************************************************)
C2_FullAtCeilingRejected ==
  [][(Placed /\ AllOccupied /\ binder.maxPage # 0
        /\ totalPages = binder.maxPage)
       => (notification' = CannotAddCard /\ binder' = binder /\ page' = page)
    ]_vars

C2_Witness ==
  /\ last.op = "handleAddCard"
  /\ last.res = "full"
  /\ AllOccupied
  /\ binder.maxPage = 2
  /\ totalPages = binder.maxPage
  /\ notification = CannotAddCard

(***************************************************************************)
(* C3: placeCard on a layout with an empty slot in the viewed page leaves  *)
(* positions.length, hence totalPages, as it was.                          *)
(***************************************************************************)
C3_NoGrowthWhenPageHasRoom ==
  [][(Placed /\ EmptyIndices(Positions, slotIds) # {})
       => Len(binder'.cardPositions) = Len(Positions)]_vars

C3_Witness ==
  /\ last.op = "handleAddCard"
  /\ last.res = "currentPage"
  /\ AllOccupied
  /\ totalPages < maxPage

(***************************************************************************)
(* C4: placeCard run right after clearAll puts the card at index 0,        *)
(* whatever the layout and the viewed page were when clearAll ran.         *)
(***************************************************************************)
C4_FirstSlotAfterClearAll ==
  [][\A card \in CardIds :
       (Placed /\ last.op = "handleClearBinder" /\ handleAddCard(card))
         => /\ At(binder'.cardPositions, 0).cardId = card
            /\ ~At(binder'.cardPositions, 0).isEmpty]_vars

C4_Witness ==
  /\ last.op = "handleAddCard"
  /\ last.afterClearAll
  /\ totalPages = 2
  /\ Occupied(At(Positions, 0))

(***************************************************************************)
(* C5: dropping a slot on itself changes nothing of the layout, for every  *)
(* index and in both revisions of the drag handler.                        *)
(***************************************************************************)
C5_SwapWithSelfIsIdentity ==
  [][\A i \in Indices(Positions) :
       (/\ last'.op \in {"handleDragEnd", "handleDragEndInPlace"}
        /\ handleDragEnd(i, i) \/ handleDragEndInPlace(i, i))
         => binder' = binder]_vars

C5_Witness ==
  /\ last.op = "handleDragEnd"
  /\ last.res = "same"
  /\ \E i \in slotIds : Occupied(At(Positions, i))
  /\ binder.updatedAt < MaxTime

(***************************************************************************)
(* C6: every card position satisfies isEmpty == (cardId == null).          *)
(***************************************************************************)
C6_EmptyFlagMatchesCard ==
  \A i \in Indices(Positions) :
    At(Positions, i).isEmpty = (At(Positions, i).cardId = NoCard)

C6_Witness ==
  /\ last.op \in {"handleDragEnd", "handleDragEndInPlace"}
  /\ last.res = "swapped"
  /\ \E i, j \in Indices(Positions) :
       Occupied(At(Positions, i)) /\ ~Occupied(At(Positions, j))

(***************************************************************************)
(* C7: the position stored at index i carries                              *)
(* row = floor((i mod pageSize) / cols) and col = (i mod pageSize) mod     *)
(* cols.                                                                   *)
(***************************************************************************)
C7_RowColMatchIndex ==
  \A i \in Indices(Positions) :
    /\ At(Positions, i).row = (i % pageSize) \div binder.cols
    /\ At(Positions, i).col = (i % pageSize) % binder.cols

C9_ElsewhereWhenPageFull ==
  [][\A card \in CardIds :
       (/\ Placed
        /\ handleAddCard(card)
        /\ slotIds # {}
        /\ EmptyIndices(Positions, slotIds) = {}
        /\ EmptyIndices(Positions, Indices(Positions)) # {})
         => LET i == Lowest(EmptyIndices(Positions, Indices(Positions)))
            IN /\ binder'.cardPositions =
                    [Positions EXCEPT ![i + 1] = WithCard(@, card)]
               /\ page' = (i \div (binder.rows * binder.cols)) + 1]_vars

C9_Witness ==
  /\ last.op = "handleAddCard"
  /\ last.res = "otherPage"
  /\ page = 2
  /\ Occupied(At(Positions, 0))

(***************************************************************************)
(* C10: when every slot is occupied and totalPages < maxPage, placeCard    *)
(* appends exactly one page of pageSize slots, puts the card in its first  *)
(* slot, leaves the other new slots empty and the old positions as they    *)
(* were, and the viewed page becomes the old totalPages + 1.               *)
(***************************************************************************)
C10_AppendsOnePage ==
  [][\A card \in CardIds :
       (Placed /\ handleAddCard(card) /\ AllOccupied
          /\ totalPages < maxPage)
         => LET old == Positions
                new == binder'.cardPositions
                size == binder.rows * binder.cols
            IN /\ Len(new) = Len(old) + size
               /\ SubSeq(new, 1, Len(old)) = old
               /\ At(new, Len(old)).cardId = card
               /\ ~At(new, Len(old)).isEmpty
               /\ \A j \in (Len(old) + 1)..(Len(old) + size - 1) :
                    /\ At(new, j).cardId = NoCard
                    /\ At(new, j).isEmpty
               /\ page' = totalPages + 1]_vars

C10_Witness ==
  /\ last.op = "handleAddCard"
  /\ last.res = "newPage"
  /\ page = 2
  /\ Occupied(At(Positions, Len(Positions) - pageSize))
  /\ ~Occupied(At(Positions, Len(Positions) - 1))

(***************************************************************************)
(* C11: the page ceiling applies only when maxPage is set: on a layout     *)
(* without maxPage, placeCard on a fully occupied layout and appendPage    *)
(* (Next on the last page) add a page and raise no capacity error.         *)
(***************************************************************************)
C11_NoCeilingWithoutMaxPage ==
  [][(binder.maxPage = 0) =>
       /\ \A card \in CardIds :
            (Placed /\ handleAddCard(card) /\ AllOccupied)
              => /\ Len(binder'.cardPositions) = Len(Positions) + pageSize
                 /\ notification' # CannotAddCard
       /\ (last'.op = "nextPage" /\ nextPage /\ page = totalPages)
            => /\ Len(binder'.cardPositions) = Len(Positions) + pageSize
               /\ notification' # CannotAddPage]_vars

(***************************************************************************)
(* C12: totalPages never exceeds maxPage.  placeCard and appendPage (Next  *)
(* on the last page) lengthen the layout only when totalPages < maxPage;   *)
(* when totalPages >= maxPage, appendPage sets the capacity error and      *)
(* leaves the binder and the viewed page as they were.                     *)
(***************************************************************************)
C12_TotalPagesWithinCeiling ==
  /\ [](totalPages <= maxPage)
  /\ [][/\ (last'.op \in {"handleAddCard", "nextPage"}
              /\ Len(binder'.cardPositions) > Len(Positions))
             => totalPages < maxPage
        /\ (last'.op = "nextPage" /\ nextPage
              /\ page = totalPages /\ totalPages >= maxPage)
             => /\ notification' = CannotAddPage
                /\ binder' = binder
                /\ page' = page]_vars

C12_Witness ==
  /\ last.op = "nextPage"
  /\ last.res = "full"
  /\ totalPages = 2
  /\ notification = CannotAddPage

(***************************************************************************)
(* C13: swapSlots with two different indices inside the layout exchanges   *)
(* only the card references and empty-flags of the two positions: each     *)
(* keeps its row and col and takes the other's cardId and isEmpty, every   *)
(* other position and the length are unchanged.                            *)
(***************************************************************************)
C13_SwapExchangesCardsOnly ==
  [][\A a, b \in Indices(Positions) :
       (/\ last'.op \in {"handleDragEnd", "handleDragEndInPlace"}
        /\ a # b
        /\ \/ Paged /\ handleDragEnd(a, b)
           \/ Unpaged /\ handleDragEndInPlace(a, b))
         => binder'.cardPositions =
              [Positions EXCEPT
                 ![a + 1] = [@ EXCEPT !.cardId = At(Positions, b).cardId,
                                      !.isEmpty = At(Positions, b).isEmpty],
                 ![b + 1] = [@ EXCEPT !.cardId = At(Positions, a).cardId,
                                      !.isEmpty = At(Positions, a).isEmpty]]
    ]_vars

(***************************************************************************)
(* C14: swapSlots with an index outside 0..positions.length-1 is ignored:  *)
(* the binder is left as it was and no error is raised.                    *)
(***************************************************************************)
C14_OutOfRangeSwapIgnored ==
  [][\A a \in DragIndices \cup AllDragIndices,
        b \in DragIndices \cup AllDragIndices :
       (/\ last'.op \in {"handleDragEnd", "handleDragEndInPlace"}
        /\ a \notin Indices(Positions) \/ b \notin Indices(Positions)
        /\ \/ Paged /\ handleDragEnd(a, b)
           \/ Unpaged /\ handleDragEndInPlace(a, b))
         => /\ binder' = binder
            /\ last'.res # "TypeError"]_vars

(***************************************************************************)
(* C15: clearPage of page p empties every slot with index in               *)
(* [(p-1)*pageSize, p*pageSize) and leaves every position of every other   *)
(* page, and the number of positions, unchanged.                           *)
(***************************************************************************)
C15_ClearPageFrame ==
  [][(last'.op = "handleClearPage" /\ handleClearPage)
       => LET new == binder'.cardPositions
              size == binder.rows * binder.cols
          IN /\ Len(new) = Len(Positions)
             /\ \A i \in Indices(Positions) :
                  IF (page - 1) * size <= i /\ i < page * size
                  THEN /\ At(new, i).cardId = NoCard
                       /\ At(new, i).isEmpty
                  ELSE At(new, i) = At(Positions, i)]_vars

C15_Witness ==
  /\ last.op = "handleClearPage"
  /\ page = 1
  /\ totalPages = 2
  /\ \A i \in slotIds : ~Occupied(At(Positions, i))
  /\ Occupied(At(Positions, pageSize))

(***************************************************************************)
(* C16: clearAll empties every slot of the layout and keeps the number of  *)
(* positions (pages are emptied, not removed) and each position's row and  *)
(* col.                                                                    *)
(***************************************************************************)
C16_ClearAllEmptiesInPlace ==
  [][(last'.op = "handleClearBinder" /\ handleClearBinder)
       => LET new == binder'.cardPositions
          IN /\ Len(new) = Len(Positions)
             /\ \A i \in Indices(Positions) :
                  /\ At(new, i).cardId = NoCard
                  /\ At(new, i).isEmpty
                  /\ At(new, i).row = At(Positions, i).row
                  /\ At(new, i).col = At(Positions, i).col]_vars

C16_Witness ==
  /\ last.op = "handleClearBinder"
  /\ totalPages = 2
  /\ \A i \in Indices(Positions) : ~Occupied(At(Positions, i))
  /\ \E i \in Indices(Positions) : At(Positions, i).col + At(Positions, i).row > 0

(***************************************************************************)
(* C17: creating a binder from a template id that is not in the template   *)
(* list fails with the not-found error and makes no binder: the binder     *)
(* that was current stays current, unchanged.                              *)
(***************************************************************************)
C17_UnknownTemplateKeepsBinder ==
  [][\A id \in {UnknownTemplateId} \ TemplateIds :
       (last'.op = "createNewBinder" /\ createNewBinder(id))
         => /\ last'.res = "notFound"
            /\ binder' = binder]_vars

C17_Witness ==
  /\ last.op = "createNewBinder"
  /\ last.res = "notFound"
  /\ totalPages = 2
  /\ \E i \in Indices(Positions) : Occupied(At(Positions, i))

(***************************************************************************)
(*                        Card Search Client                               *)
(*                                                                         *)
(* CardSearch.handleSearch calls one PokemonTCGService method per search   *)
(* mode.  The service revision it calls (three-argument searchCards,       *)
(* clearCache) keeps a cache of results and a map of requests in flight;   *)
(* the strategy loops and the normalisation of a response are in           *)
(* services/PokemonTCGService.ts.  A search call runs without interruption *)
(* from one await to the next: `search` is the part before the first       *)
(* await, `settle` is the arrival of a response and everything the         *)
(* waiting calls do with it before they await again.                       *)
(***************************************************************************)
MaxNow == 2        \* the clock runs 0..MaxNow

TTL == 1           \* lifetime of a cache entry, in clock units

Strategies == {"newest", "popular", "rare", "exact"}

\* the search term; the page asked for; the page size in force
Query == "pikachu"
Pages == {1}
PageSize == 2

\* pageSize of the one request quickSearch makes
QuickPageSize == 12

\* the head of the hand-ordered lists the popular and rare strategies try
RecentSets == <<"sv4pt5", "sv4">>
RarityOrder == <<"Amazing Rare", "Secret Rare">>

\* bodies the catalog answers with: { data, totalCount }
Found1 == [data |-> <<"base1-4">>, totalCount |-> 1]
Found3 == [data |-> <<"xy7-54", "base1-4", "sv4pt5-7">>, totalCount |-> 3]

\* how a network call ends: a body, or a failure (network, parse, timeout)
Outcomes ==
  {[ok |-> TRUE, body |-> b] : b \in {Found1, Found3, NoResult}}
    \cup {[ok |-> FALSE, body |-> NoResult]}

Candidates(strategy) ==
  CASE strategy = "popular" -> RecentSets
    [] strategy = "rare" -> RarityOrder
    [] OTHER -> <<>>

(***************************************************************************)
(* The cache key of the request search call s is at: a scoped candidate    *)
(* of popular/rare (sub-key: the set id or rarity), the one request of     *)
(* exact, or the newest request (also the fallback of popular/rare).       *)
(***************************************************************************)
KeyOf(s) ==
  IF s.idx <= Len(Candidates(s.strategy))
  THEN [family |-> s.strategy, query |-> Query, page |-> s.page,
        pageSize |-> PageSize, sub |-> Candidates(s.strategy)[s.idx]]
  ELSE IF s.strategy = "exact"
  THEN [family |-> "exact", query |-> Query, page |-> 1,
        pageSize |-> QuickPageSize, sub |-> ""]
  ELSE [family |-> "newest", query |-> Query, page |-> s.page,
        pageSize |-> PageSize, sub |-> ""]

\* exactResults.slice(startIndex, endIndex)
\* the exact search shows the first `size` cards whatever the page
SliceFirstPage(data, p, size) ==
  LET startIndex == 0
      endIndex == IF startIndex + size < Len(data) THEN startIndex + size
                  ELSE Len(data)
  IN SubSeq(data, startIndex + 1, endIndex)

Slice(data, p, size) ==
  LET startIndex == (p - 1) * size
      endIndex == IF startIndex + size < Len(data) THEN startIndex + size
                  ELSE Len(data)
  IN SubSeq(data, startIndex + 1, endIndex)

(***************************************************************************)
(* The search call returns `body` to handleSearch; for the exact mode      *)
(* handleSearch takes the requested page out of the cards fetched.         *)
(***************************************************************************)
Finish(s, body) ==
  [s EXCEPT
     !.status = "done",
     !.result = IF s.strategy = "exact"
                THEN [data |-> Slice(body.data, s.page, PageSize),
                      totalCount |-> Len(body.data)]
                ELSE body]

Without(f, k) == [j \in DOMAIN f \ {k} |-> f[j]]

With(f, k, v) == [j \in DOMAIN f \cup {k} |-> IF j = k THEN v ELSE f[j]]

\* the service's state while a step is computed
Service == [cache |-> cache, pending |-> pendingRequests, searches |-> searches]

\* mutant: the cache is never consulted
RequestNoCache(st, c) ==
  LET key == KeyOf(st.searches[c])
  IN IF key \in DOMAIN st.pending
     THEN [st EXCEPT !.searches[c].status = "waiting"]
     ELSE [cache |-> st.cache,
           pending |-> With(st.pending, key, c),
           searches |-> [st.searches EXCEPT ![c].status = "waiting",
                                            ![c].fetched = @ + 1]]

\* mutant: an entry is served whatever its expiry
RequestIgnoresExpiry(st, c) ==
  LET s == st.searches[c]
      key == KeyOf(s)
  IN IF key \in DOMAIN st.cache
     THEN [st EXCEPT !.searches[c] =
                       [Finish(s, st.cache[key].result)
                          EXCEPT !.fromCache = TRUE]]
     ELSE IF key \in DOMAIN st.pending
     THEN [st EXCEPT !.searches[c].status = "waiting"]
     ELSE [cache |-> st.cache,
           pending |-> With(st.pending, key, c),
           searches |-> [st.searches EXCEPT ![c].status = "waiting",
                                            ![c].fetched = @ + 1]]

\* mutant: a request in flight for the key is not joined
RequestNoJoin(st, c) ==
  LET s == st.searches[c]
      key == KeyOf(s)
      cached == key \in DOMAIN st.cache
      fresh == cached /\ now < st.cache[key].expiry
      kept == IF cached /\ ~fresh THEN Without(st.cache, key) ELSE st.cache
  IN IF fresh
     THEN [st EXCEPT !.searches[c] =
                       [Finish(s, st.cache[key].result)
                          EXCEPT !.fromCache = TRUE]]
     ELSE [cache |-> kept,
           pending |-> With(st.pending, key, c),
           searches |-> [st.searches EXCEPT ![c].status = "waiting",
                                            ![c].fetched = @ + 1]]

(***************************************************************************)
(* One request of search call c, for the key it is at: an unexpired cache  *)
(* entry is returned without a network call; an expired one is purged and  *)
(* counts as a miss; on a miss the call joins the request already in       *)
(* flight for the key or, if there is none, issues the network call and    *)
(* marks the key in flight.  The marker remembers the issuing call.        *)
(***************************************************************************)
Request(st, c) ==
  LET s == st.searches[c]
      key == KeyOf(s)
      cached == key \in DOMAIN st.cache
      fresh == cached /\ now < st.cache[key].expiry
      kept == IF cached /\ ~fresh THEN Without(st.cache, key) ELSE st.cache
  IN IF fresh
     THEN [st EXCEPT !.searches[c] =
                       [Finish(s, st.cache[key].result)
                          EXCEPT !.fromCache = TRUE]]
     ELSE IF key \in DOMAIN st.pending
     THEN [cache |-> kept,
           pending |-> st.pending,
           searches |-> [st.searches EXCEPT ![c].status = "waiting"]]
     ELSE [cache |-> kept,
           pending |-> With(st.pending, key, c),
           searches |-> [st.searches EXCEPT ![c].status = "waiting",
                                            ![c].fetched = @ + 1]]

(***************************************************************************)
(* Search call c resumes with the outcome of the request it awaited.  A    *)
(* failure ends the search with the empty result; a non-empty body is      *)
(* returned; after an empty body popular and rare go on to the next        *)
(* candidate and, past the last one, to the newest request.                *)
(***************************************************************************)
Continue(st, c, outcome) ==
  LET s == st.searches[c]
  IN IF ~outcome.ok
     THEN [st EXCEPT !.searches[c] = Finish(s, NoResult)]
     ELSE IF Len(outcome.body.data) > 0
     THEN [st EXCEPT !.searches[c] = Finish(s, outcome.body)]
     ELSE IF s.idx <= Len(Candidates(s.strategy))
     THEN Request([st EXCEPT !.searches[c].idx = s.idx + 1], c)
     ELSE [st EXCEPT !.searches[c] = Finish(s, NoResult)]

\* the calls awaiting the settled request resume one after the other
RECURSIVE Resume(_, _, _)
Resume(st, waiting, outcome) ==
  IF waiting = {} THEN st
  ELSE LET c == Lowest(waiting)
       IN Resume(Continue(st, c, outcome), waiting \ {c}, outcome)

Commit(st) ==
  /\ cache' = st.cache
  /\ pendingRequests' = st.pending
  /\ searches' = st.searches

(***************************************************************************)
(* handleSearch(Query, p, PageSize) in mode `strategy` calls the service:  *)
(* search call c runs up to its first await.                               *)
(***************************************************************************)
search(c, strategy, p) ==
  /\ searches[c].status = "idle"
  /\ \A d \in CallIds : d < c => searches[d].status # "idle"
  /\ Commit(Request(
       [Service EXCEPT
          !.searches[c] = [Idle EXCEPT !.strategy = strategy, !.page = p,
                                       !.idx = 1]],
       c))
  /\ UNCHANGED <<now, vars>>

\* mutant: the in-flight marker is cleared only when the call succeeded
settleKeepsMarker(key, outcome) ==
  /\ key \in DOMAIN pendingRequests
  /\ LET stored == outcome.ok /\ Len(outcome.body.data) > 0
         st == [cache |-> IF stored
                          THEN With(cache, key, [result |-> outcome.body,
                                                 expiry |-> now + TTL,
                                                 by |-> pendingRequests[key]])
                          ELSE cache,
                pending |-> IF outcome.ok THEN Without(pendingRequests, key)
                            ELSE pendingRequests,
                searches |-> searches]
         waiting == {c \in CallIds : /\ searches[c].status = "waiting"
                                     /\ KeyOf(searches[c]) = key}
     IN Commit(Resume(st, waiting, outcome))
  /\ UNCHANGED <<now, vars>>

(***************************************************************************)
(* The network call for `key` settles with `outcome`: the in-flight        *)
(* marker is cleared, a non-empty body is cached for TTL, and the calls    *)
(* awaiting the request resume.  The entry remembers the call that issued  *)
(* the request (`by`, history only).                                       *)
(***************************************************************************)
settle(key, outcome) ==
  /\ key \in DOMAIN pendingRequests
  /\ LET stored == outcome.ok /\ Len(outcome.body.data) > 0
         st == [cache |-> IF stored
                          THEN With(cache, key, [result |-> outcome.body,
                                                 expiry |-> now + TTL,
                                                 by |-> pendingRequests[key]])
                          ELSE cache,
                pending |-> Without(pendingRequests, key),
                searches |-> searches]
         waiting == {c \in CallIds : /\ searches[c].status = "waiting"
                                     /\ KeyOf(searches[c]) = key}
     IN Commit(Resume(st, waiting, outcome))
  /\ UNCHANGED <<now, vars>>

\* time passes
tick ==
  /\ now < MaxNow
  /\ now' = now + 1
  /\ UNCHANGED <<cache, pendingRequests, searches, vars>>

(***************************************************************************)
(* "Clear Cache & Retry", offered when a search found no cards:            *)
(* PokemonTCGService.clearCache() and then handleSearch(searchTerm, 1,     *)
(* pageSize).                                                              *)
(***************************************************************************)
clearCacheAndRetry(c, strategy) ==
  /\ \E d \in CallIds : /\ searches[d].status = "done"
                        /\ searches[d].result.data = <<>>
  /\ searches[c].status = "idle"
  /\ \A d \in CallIds : d < c => searches[d].status # "idle"
  /\ Commit(Request(
       [cache |-> [k \in {} |-> NoResult],
        pending |-> pendingRequests,
        searches |-> [searches EXCEPT
                        ![c] = [Idle EXCEPT !.strategy = strategy,
                                            !.page = 1, !.idx = 1]]],
       c))
  /\ UNCHANGED <<now, vars>>

\* every key a request can have
Keys ==
  {KeyOf([strategy |-> g, page |-> p, idx |-> i]) :
     g \in Strategies, p \in Pages, i \in 1..3}

InitSearch ==
  /\ ServiceInit
  /\ revision = "paged"
  /\ binder = createBinderFromTemplate(CHOOSE t \in Templates : t.id = "wide", 0)
  /\ page = 1
  /\ notification = ""
  /\ timerPending = FALSE
  /\ last = Did("init", "ok")

\* the service seen from its callers; what CardSearch does with the
\* results is SpecCardSearch's
Caller == UNCHANGED uiVars

NextSearch ==
  \/ \E c \in CallIds, g \in Strategies, p \in Pages :
       Caller /\ search(c, g, p)
  \/ \E key \in Keys, outcome \in Outcomes : Caller /\ settle(key, outcome)
  \/ Caller /\ tick
  \/ \E c \in CallIds, g \in Strategies :
       Caller /\ clearCacheAndRetry(c, g)

allVars == <<vars, searchVars, uiVars>>

SpecSearch == InitSearch /\ [][NextSearch]_allVars

(***************************************************************************)
(* Vocabulary of the search properties                                     *)
(***************************************************************************)
\* the key of the first request of a search
FirstKey(strategy, p) == KeyOf([strategy |-> strategy, page |-> p, idx |-> 1])

\* search call c was made with these arguments and has returned cards
Returned(c, strategy, p) ==
  /\ searches[c].status = "done"
  /\ searches[c].strategy = strategy
  /\ searches[c].page = p
  /\ searches[c].result.data # <<>>

\* the entry stored when call c's network call returned is still valid:
\* the TTL has not run out and the cache was not cleared
StillCached(c) ==
  LET key == KeyOf(searches[c])
  IN /\ key \in DOMAIN cache
     /\ cache[key].by = c
     /\ now < cache[key].expiry

SameSearch(c1, c2) ==
  /\ c1 # c2
  /\ searches[c1].strategy = searches[c2].strategy
  /\ searches[c1].page = searches[c2].page

Awaiting(key) ==
  {c \in CallIds : searches[c].status = "waiting" /\ KeyOf(searches[c]) = key}

C20_FailureLeavesNoTrace ==
  [][/\ \A key \in DOMAIN pendingRequests, outcome \in Outcomes :
          (settle(key, outcome)
             /\ (~outcome.ok \/ outcome.body.data = <<>>))
            => /\ key \notin DOMAIN cache'
               /\ key \notin DOMAIN pendingRequests'
     /\ \A c \in CallIds, g \in Strategies, p \in Pages :
          (/\ search(c, g, p)
           /\ FirstKey(g, p) \notin DOMAIN cache
           /\ FirstKey(g, p) \notin DOMAIN pendingRequests)
            => /\ searches'[c].status = "waiting"
               /\ searches'[c].fetched = 1
               /\ FirstKey(g, p) \in DOMAIN pendingRequests'
               /\ pendingRequests'[FirstKey(g, p)] = c]_allVars

C20_Witness ==
  \E c1, c2 \in CallIds :
    /\ searches[c1].status = "done"
    /\ searches[c1].strategy = "exact"
    /\ searches[c1].result = NoResult
    /\ searches[c1].fetched = 1
    /\ searches[c2].status = "waiting"
    /\ searches[c2].strategy = "exact"
    /\ searches[c2].fetched = 1
    /\ pendingRequests[FirstKey("exact", 1)] = c2

(***************************************************************************)
(* C30: the viewed page always satisfies 1 <= page <= totalPages, after    *)
(* any sequence of Prev, Next, placeCard, clearPage and clearAll, and also *)
(* after the binder shown is replaced by one with fewer pages.             *)
(***************************************************************************)
C30_PageWithinBinder ==
  /\ 1 <= page
  /\ page <= totalPages

\* in this step call c looked key up: it made its first request, or went
\* on to another candidate
LooksUp(c, key) ==
  /\ searches[c].status # "done"
  /\ searches'[c].status # "idle"
  /\ KeyOf(searches'[c]) = key
  /\ searches[c].status = "idle" \/ searches'[c].idx # searches[c].idx

(***************************************************************************)
(* C21: a cache entry is served only while the clock is before its         *)
(* expiry.  A lookup at or after expiry removes the entry, is a miss and   *)
(* leads to a new network call; a result that comes out of the cache       *)
(* comes from an entry that has not expired.                               *)
(***************************************************************************)
C21_ExpiredEntryIsAMiss ==
  [][\A c \in CallIds, key \in Keys :
       /\ (/\ LooksUp(c, key)
           /\ key \in DOMAIN cache
           /\ now >= cache[key].expiry)
            => /\ key \notin DOMAIN cache'
               /\ searches'[c].status = "waiting"
               /\ ~searches'[c].fromCache
               /\ key \notin DOMAIN pendingRequests
               /\ key \in DOMAIN pendingRequests'
       /\ (LooksUp(c, key) /\ searches'[c].fromCache)
            => /\ key \in DOMAIN cache
               /\ now < cache[key].expiry
               /\ cache' = cache
               /\ searches'[c].result = Finish(searches'[c],
                                               cache[key].result).result
    ]_allVars

C21_Witness ==
  \E c1, c2 \in CallIds :
    /\ c1 < c2
    /\ Returned(c1, "newest", 1)
    /\ searches[c1].fetched = 1
    /\ now >= TTL
    /\ searches[c2].status = "waiting"
    /\ searches[c2].strategy = "newest"
    /\ searches[c2].fetched = 1
    /\ FirstKey("newest", 1) \notin DOMAIN cache

(***************************************************************************)
(* The search stack of src/services/PokemonTCGService.ts: a service that   *)
(* keeps nothing between calls and catches nothing, and the CardSearch     *)
(* component of the same file, whose handleSearch awaits the service       *)
(* without try/catch.  Every call makes its own requests, one outstanding  *)
(* at a time.  A call slot is free again once its call has returned or     *)
(* raised; `last` keeps the call that settled last and the reply that      *)
(* settled it.                                                             *)
(***************************************************************************)
NewestPageSize == 16
PopularPageSize == 8
RarePageSize == 6

Terms == {"", "  ", Query}

\* String.prototype.trim on the terms typed
Trim(t) == IF t = "  " THEN "" ELSE t

\* a card list the API sent without a totalCount
Untotalled == [data |-> <<"swsh9-18">>, totalCount |-> 0]

(***************************************************************************)
(* What fetch and response.json() can give: a 2xx JSON body, a non-2xx     *)
(* JSON error body (no data, no totalCount), a rejected fetch, a body      *)
(* that is not JSON.                                                       *)
(***************************************************************************)
Replies ==
  {[kind |-> "ok", body |-> b] : b \in {Found1, Untotalled, NoResult}}
    \cup {[kind |-> k, body |-> NoResult] :
            k \in {"status", "network", "unparsable"}}

Failures == {"status", "network", "unparsable"}

\* the request a waiting call has outstanding
UrlOf(s) ==
  IF s.strategy = "exact"
    THEN [q |-> <<"name", s.strategy>>, sub |-> "", page |-> 1,
          pageSize |-> QuickPageSize, orderBy |-> "-set.releaseDate,name"]
  ELSE IF s.idx <= Len(Candidates(s.strategy))
    THEN [q |-> <<"name*", s.strategy>>, sub |-> Candidates(s.strategy)[s.idx],
          page |-> 1,
          pageSize |-> IF s.strategy = "popular" THEN PopularPageSize
                       ELSE RarePageSize,
          orderBy |-> IF s.strategy = "popular" THEN "name"
                      ELSE "-set.releaseDate,name"]
  ELSE [q |-> <<"name*", "newest">>, sub |-> "", page |-> s.page,
        pageSize |-> NewestPageSize, orderBy |-> "-set.releaseDate,name"]

NoCall == [op |-> "init", res |-> "ok", call |-> Idle,
           reply |-> [kind |-> "ok", body |-> NoResult]]

\* the loop over the candidates returns the first list it is sent, empty
\* or not
AnsweredFirstCandidate(s, reply) ==
  IF reply.kind \in {"network", "unparsable"}
    THEN [s EXCEPT !.status = "raised"]
  ELSE IF s.strategy = "exact"
    THEN [s EXCEPT !.status = "done",
                   !.result = [data |-> reply.body.data,
                               totalCount |-> Len(reply.body.data)]]
  ELSE IF s.idx <= Len(Candidates(s.strategy))
    THEN [s EXCEPT !.status = "done",
                   !.result = [data |-> reply.body.data,
                               totalCount |->
                                 IF reply.body.totalCount # 0
                                   THEN reply.body.totalCount
                                 ELSE Len(reply.body.data)]]
  ELSE [s EXCEPT !.status = "done", !.result = reply.body]

\* the loop ends without the fallback to searchCards
AnsweredNoFallback(s, reply) ==
  IF reply.kind \in {"network", "unparsable"}
    THEN [s EXCEPT !.status = "raised"]
  ELSE IF s.strategy = "exact"
    THEN [s EXCEPT !.status = "done",
                   !.result = [data |-> reply.body.data,
                               totalCount |-> Len(reply.body.data)]]
  ELSE IF s.idx <= Len(Candidates(s.strategy))
    THEN IF reply.body.data # <<>>
           THEN [s EXCEPT !.status = "done",
                          !.result = [data |-> reply.body.data,
                                      totalCount |->
                                        IF reply.body.totalCount # 0
                                          THEN reply.body.totalCount
                                        ELSE Len(reply.body.data)]]
         ELSE IF s.idx = Len(Candidates(s.strategy))
           THEN [s EXCEPT !.status = "done", !.result = NoResult]
         ELSE [s EXCEPT !.idx = @ + 1, !.fetched = @ + 1]
  ELSE [s EXCEPT !.status = "done", !.result = reply.body]

(***************************************************************************)
(* The service method of call s goes on with the reply to its request.     *)
(* fetch or response.json() rejecting ends the method with the rejection.  *)
(* Otherwise `result.data || []`: searchCards returns what it got;         *)
(* quickSearch returns the list, of which handleSearch takes the length as *)
(* the total; the candidate loops return a non-empty list and go on to the *)
(* next candidate, and after the last one to searchCards, on an empty one. *)
(***************************************************************************)
Answered(s, reply) ==
  IF reply.kind \in {"network", "unparsable"}
    THEN [s EXCEPT !.status = "raised"]
  ELSE IF s.strategy = "exact"
    THEN [s EXCEPT !.status = "done",
                   !.result = [data |-> reply.body.data,
                               totalCount |-> Len(reply.body.data)]]
  ELSE IF s.idx <= Len(Candidates(s.strategy))
    THEN IF reply.body.data # <<>>
           THEN [s EXCEPT !.status = "done",
                          !.result = [data |-> reply.body.data,
                                      totalCount |->
                                        IF reply.body.totalCount # 0
                                          THEN reply.body.totalCount
                                        ELSE Len(reply.body.data)]]
         ELSE [s EXCEPT !.idx = @ + 1, !.fetched = @ + 1]
  ELSE [s EXCEPT !.status = "done", !.result = reply.body]

(***************************************************************************)
(* The calls of this service share nothing, so which slot a call sits in   *)
(* means nothing: the slots are kept in one order, the free ones last.     *)
(***************************************************************************)
Rank(s) ==
  IF s.status = "idle" THEN 4 * (Len(RecentSets) + Len(RarityOrder) + 2)
  ELSE s.idx + (Len(RecentSets) + Len(RarityOrder) + 2)
                 * (CASE s.strategy = "newest" -> 0
                      [] s.strategy = "popular" -> 1
                      [] s.strategy = "rare" -> 2
                      [] OTHER -> 3)

\* slot c freed, the later calls moved up
FreeCall(f, c) ==
  [k \in CallIds |-> IF k < c THEN f[k]
                     ELSE IF k < MaxCalls THEN f[k + 1]
                     ELSE Idle]

\* call s put at its place among the calls of f, of which the last slot
\* is free
PutCall(f, s) ==
  LET at == 1 + Cardinality({k \in CallIds : Rank(f[k]) <= Rank(s)})
  IN [k \in CallIds |-> IF k < at THEN f[k]
                        ELSE IF k = at THEN s
                        ELSE f[k - 1]]

\* the first request of a call made in search mode `mode`
Started(mode) ==
  [Idle EXCEPT !.status = "waiting", !.strategy = mode, !.page = 1,
               !.idx = 1, !.fetched = 1]

(***************************************************************************)
(* handleSearch(query) as called from a render in which the search mode    *)
(* was `mode`, up to its first await; `term` is the searchTerm the handler *)
(* leaves behind.                                                          *)
(***************************************************************************)
handleSearchUncached(term, query, mode) ==
  IF Trim(query) = ""
    THEN /\ ui' = [ui EXCEPT !.searchTerm = term]
         /\ UNCHANGED searches
  ELSE /\ \E c \in CallIds : searches[c].status = "idle"
       /\ ui' = [ui EXCEPT !.searchTerm = term, !.isLoading = TRUE,
                           !.hasSearched = TRUE]
       /\ searches' = PutCall(searches, Started(mode))

Uncached == UNCHANGED <<revision, binder, page, notification, timerPending,
                        now, cache, pendingRequests, timeouts>>

setSearchTerm(t) ==
  /\ t # ui.searchTerm
  /\ ui' = [ui EXCEPT !.searchTerm = t]
  /\ UNCHANGED <<searches, last>>

\* Enter in the input, or the search button
handleKeyPressUncached ==
  /\ handleSearchUncached(ui.searchTerm, ui.searchTerm, ui.searchMode)
  /\ UNCHANGED last

handleSuggestionClickUncached ==
  /\ ~ui.hasSearched
  /\ handleSearchUncached(Query, Query, ui.searchMode)
  /\ UNCHANGED last

clearSearchUncached ==
  /\ ui.searchTerm # ""
  /\ ui' = [ui EXCEPT !.searchTerm = "", !.searchResults = <<>>,
                      !.hasSearched = FALSE, !.totalCount = 0]
  /\ UNCHANGED <<searches, last>>

setSearchMode(m) ==
  /\ m # ui.searchMode
  /\ ui' = [ui EXCEPT !.searchMode = m]
  /\ UNCHANGED <<searches, last>>

(***************************************************************************)
(* "Try Popular Sets", "Try Rare Cards" under a result list, "Try Exact    *)
(* Match" under an empty one: setSearchMode(m); handleSearch().  The       *)
(* handleSearch called is the one of the render the button belongs to.     *)
(***************************************************************************)
tryDifferentSearch(m) ==
  /\ ui.hasSearched /\ ~ui.isLoading
  /\ IF ui.searchResults # <<>>
       THEN m \in {"popular", "rare"} /\ m # ui.searchMode
     ELSE m = "exact"
  /\ \E c \in CallIds : searches[c].status = "idle"
  /\ LET mode == ui.searchMode
         query == ui.searchTerm
     IN IF Trim(query) = ""
          THEN /\ ui' = [ui EXCEPT !.searchMode = m]
               /\ UNCHANGED searches
        ELSE /\ ui' = [ui EXCEPT !.searchMode = m, !.isLoading = TRUE,
                                 !.hasSearched = TRUE]
             /\ searches' = PutCall(searches, Started(mode))
  /\ UNCHANGED last

(***************************************************************************)
(* The request of call c is answered.  When the service method returns,    *)
(* handleSearch goes on after its await: setSearchResults, setTotalCount,  *)
(* setIsLoading(false).  When it raises, nothing of handleSearch after the *)
(* await runs.                                                             *)
(***************************************************************************)
respond(c, reply) ==
  /\ searches[c].status = "waiting"
  /\ LET s == Answered(searches[c], reply)
     IN IF s.status = "waiting"
          THEN /\ searches' = PutCall(FreeCall(searches, c), s)
               /\ UNCHANGED <<ui, last>>
        ELSE /\ searches' = FreeCall(searches, c)
             /\ last' = [op |-> "handleSearch",
                         res |-> IF s.status = "done" THEN "returned"
                                 ELSE "raised",
                         call |-> s, reply |-> reply]
             /\ ui' = IF s.status = "done"
                        THEN [ui EXCEPT !.searchResults = s.result.data,
                                        !.totalCount = s.result.totalCount,
                                        !.isLoading = FALSE]
                      ELSE ui

InitUncached ==
  /\ ServiceInit
  /\ revision = "paged"
  /\ binder = createBinderFromTemplate(CHOOSE t \in Templates : t.id = "wide", 0)
  /\ page = 1
  /\ notification = ""
  /\ timerPending = FALSE
  /\ last = NoCall

NextUncached ==
  \/ \E t \in {"", Query} : Uncached /\ setSearchTerm(t)
  \/ Uncached /\ handleKeyPressUncached
  \/ Uncached /\ handleSuggestionClickUncached
  \/ Uncached /\ clearSearchUncached
  \/ \E m \in Strategies : Uncached /\ setSearchMode(m)
  \/ \E m \in Strategies : Uncached /\ tryDifferentSearch(m)
  \/ \E c \in CallIds, reply \in Replies : Uncached /\ respond(c, reply)

SpecUncached == InitUncached /\ [][NextUncached]_allVars

\* C22: a search never raises to its caller; when its network call fails,
\* answers with a non-2xx status or with a body that cannot be parsed, the
\* search settles with an empty card list and total count 0
C22_SearchNeverRaises ==
  last.op = "handleSearch"
    => /\ last.res = "returned"
       /\ last.reply.kind \in Failures => last.call.result = NoResult

\* C23: the popular and the rare search ask their candidates one at a time
\* in list order: a call has its k-th request out while it is at its k-th
\* candidate, moves on by one candidate and only on an empty answer to the
\* request it has out, and returns the first non-empty answer, having made
\* no request beyond that candidate
C23_CandidatesInOrder ==
  /\ [](\A c \in CallIds :
          searches[c].status = "waiting" => searches[c].fetched = searches[c].idx)
  /\ [](/\ last.res = "returned"
        /\ last.call.strategy \in {"popular", "rare"}
        /\ last.call.idx <= Len(Candidates(last.call.strategy))
        => /\ last.reply.body.data # <<>>
           /\ last.call.result.data = last.reply.body.data
           /\ last.call.fetched = last.call.idx)
  /\ [](\A c \in CallIds, reply \in Replies :
          /\ searches[c].status = "waiting"
          /\ searches[c].strategy \in {"popular", "rare"}
          => LET s == searches[c]
                 t == Answered(s, reply)
             IN \/ /\ t = [s EXCEPT !.idx = @ + 1, !.fetched = @ + 1]
                   /\ s.idx <= Len(Candidates(s.strategy))
                   /\ reply.body.data = <<>>
                \/ /\ t.status \in {"done", "raised"}
                   /\ t.idx = s.idx /\ t.fetched = s.fetched)

C23_Witness ==
  /\ last.res = "returned"
  /\ last.call.strategy = "popular"
  /\ last.call.idx = 2
  /\ last.call.fetched = 2
  /\ last.call.result = Found1

\* C24: when every candidate of the popular or of the rare search answers
\* with no cards, the call asks the request of the newest search for the
\* same query and page, and returns exactly what that request is answered
C24_FallsBackToNewest ==
  /\ [](/\ last.res = "returned"
        /\ last.call.strategy \in {"popular", "rare"}
        /\ last.call.idx > Len(Candidates(last.call.strategy))
        => /\ last.call.result = [data |-> last.reply.body.data,
                                  totalCount |-> last.reply.body.totalCount]
           /\ last.call.fetched = Len(Candidates(last.call.strategy)) + 1)
  /\ [](\A c \in CallIds, reply \in Replies :
          /\ searches[c].status = "waiting"
          /\ searches[c].strategy \in {"popular", "rare"}
          /\ searches[c].idx = Len(Candidates(searches[c].strategy))
          /\ reply.kind \in {"ok", "status"}
          /\ reply.body.data = <<>>
          => LET t == Answered(searches[c], reply)
             IN /\ t.status = "waiting"
                /\ UrlOf(t) = UrlOf([Started("newest") EXCEPT
                                       !.page = searches[c].page]))

C24_Witness ==
  /\ last.res = "returned"
  /\ last.call.strategy = "rare"
  /\ last.call.idx = Len(RarityOrder) + 1
  /\ last.call.result = Found1

\* C29: every search that sets the loading flag clears it once its call
\* has settled, whatever the call was answered: with no call in flight
\* isLoading is false
C29_LoadingCleared ==
  (\A c \in CallIds : searches[c].status # "waiting") => ~ui.isLoading

(***************************************************************************)
(* The CardSearch component of src/unnamed/part_000.  handleSearch wraps   *)
(* its service call in try/catch/finally, and the service it calls does    *)
(* not raise: a call in flight ends by returning a result.  Here the       *)
(* service is only that: a call in flight returns some body the service    *)
(* could have had from the network or from its cache.  The calls in flight *)
(* sit in the slots in the order in which they were made; `last` tells     *)
(* what the last invocation of handleSearch, or the last return, did.      *)
(* The page size stays as it is (PageSize): the page size selector is     *)
(* left out, and so is "Clear Cache & Retry".                              *)
(***************************************************************************)
Bodies == {Found3, NoResult}

InFlight == {c \in CallIds : searches[c].status = "waiting"}

\* Math.ceil(totalCount / pageSize)
totalPagesShown == (ui.totalCount + PageSize - 1) \div PageSize

Invoked(op, res) == [op |-> op, res |-> res, older |-> 0, overtaken |-> FALSE]

\* handleSearch returns at once on a term that trims to nothing only when
\* a search is already loading
handleSearchGuardOnlyWhileLoading(u, query, mode, p, op) ==
  IF Trim(query) = "" /\ u.isLoading
    THEN /\ ui' = u
         /\ UNCHANGED searches
         /\ last' = Invoked(op, "noop")
  ELSE /\ InFlight # CallIds
       /\ ui' = [u EXCEPT !.isLoading = TRUE, !.hasSearched = TRUE]
       /\ searches' = [searches EXCEPT
                         ![Lowest(CallIds \ InFlight)] =
                           [Started(mode) EXCEPT !.page = p]]
       /\ last' = Invoked(op, "searching")

(***************************************************************************)
(* handleSearch(query, p, PageSize) of a render in which the search mode   *)
(* was `mode`, up to its await; u is the component state as the calling    *)
(* handler has set it before the call.                                     *)
(***************************************************************************)
handleSearch(u, query, mode, p, op) ==
  IF Trim(query) = ""
    THEN /\ ui' = u
         /\ UNCHANGED searches
         /\ last' = Invoked(op, "noop")
  ELSE /\ InFlight # CallIds
       /\ ui' = [u EXCEPT !.isLoading = TRUE, !.hasSearched = TRUE]
       /\ searches' = [searches EXCEPT
                         ![Lowest(CallIds \ InFlight)] =
                           [Started(mode) EXCEPT !.page = p]]
       /\ last' = Invoked(op, "searching")

InCardSearch == UNCHANGED <<revision, binder, page, notification, timerPending,
                            now, cache, pendingRequests>>

typeSearchTerm(t) ==
  /\ setSearchTerm(t)
  /\ UNCHANGED timeouts

\* Enter in the input, or the search button
handleKeyPress ==
  /\ handleSearch([ui EXCEPT !.currentPage = 1], ui.searchTerm,
                  ui.searchMode, 1, "handleKeyPress")
  /\ UNCHANGED timeouts

clearSearch ==
  /\ ui.searchTerm # ""
  /\ ui' = [ui EXCEPT !.searchTerm = "", !.searchResults = <<>>,
                      !.hasSearched = FALSE, !.totalCount = 0,
                      !.currentPage = 1]
  /\ UNCHANGED <<searches, last, timeouts>>

\* a suggestion chip, shown until a search has been made
handleSuggestionClick ==
  /\ ~ui.hasSearched
  /\ handleSearch([ui EXCEPT !.searchTerm = Query, !.currentPage = 1], Query,
                  ui.searchMode, 1, "handleSuggestionClick")
  /\ UNCHANGED timeouts

(***************************************************************************)
(* A mode button, or "Try Popular Sets" and the like: setSearchMode,       *)
(* setCurrentPage(1) and, with a term entered, setTimeout of a callback    *)
(* that calls the handleSearch this render's handleModeChange closes over. *)
(* One such timer is pending at a time.                                    *)
(***************************************************************************)
handleModeChange(newMode) ==
  /\ timeouts = <<>>
  /\ Cardinality(InFlight) < MaxCalls
  /\ ui' = [ui EXCEPT !.searchMode = newMode, !.currentPage = 1]
  /\ timeouts' = IF Trim(ui.searchTerm) # ""
                   THEN <<[query |-> ui.searchTerm, mode |-> ui.searchMode]>>
                 ELSE timeouts
  /\ UNCHANGED <<searches, last>>

\* the timer of handleModeChange fires
modeChangeTimeout ==
  /\ timeouts # <<>>
  /\ handleSearch(ui, Head(timeouts).query, Head(timeouts).mode, 1,
                  "handleModeChange")
  /\ timeouts' = Tail(timeouts)

\* Prev (d = -1) and Next (d = 1) under a result list of several pages
changePage(d) ==
  /\ ui.hasSearched /\ ~ui.isLoading
  /\ ui.searchResults # <<>>
  /\ totalPagesShown > 1
  /\ IF d = 1 THEN ui.currentPage < totalPagesShown ELSE ui.currentPage > 1
  /\ handleSearch(ui, ui.searchTerm, ui.searchMode, ui.currentPage + d,
                  "changePage")
  /\ UNCHANGED timeouts

\* handleSearch shows what its call returned only if no later call is in
\* flight
returnsUnlessStale(c, body) ==
  /\ c \in InFlight
  /\ LET s == Finish(searches[c], body)
     IN /\ ui' = IF \E d \in InFlight : d > c
                   THEN [ui EXCEPT !.isLoading = FALSE]
                 ELSE [ui EXCEPT !.searchResults = s.result.data,
                                 !.totalCount = s.result.totalCount,
                                 !.currentPage = s.page,
                                 !.isLoading = FALSE]
        /\ searches' = FreeCall(searches, c)
        /\ last' = [op |-> "handleSearch", res |-> "returned",
                    older |-> c - 1,
                    overtaken |-> (last.res = "returned" /\ c <= last.older)]
  /\ UNCHANGED timeouts

(***************************************************************************)
(* The service call of c returns `body`; handleSearch goes on after its    *)
(* await: the page of an exact search is cut out of the cards fetched,     *)
(* then setSearchResults, setTotalCount, setCurrentPage(page) and, in the  *)
(* finally, setIsLoading(false).                                           *)
(***************************************************************************)
returns(c, body) ==
  /\ c \in InFlight
  /\ LET s == Finish(searches[c], body)
     IN /\ ui' = [ui EXCEPT !.searchResults = s.result.data,
                            !.totalCount = s.result.totalCount,
                            !.currentPage = s.page,
                            !.isLoading = FALSE]
        /\ searches' = FreeCall(searches, c)
        /\ last' = [op |-> "handleSearch", res |-> "returned",
                    older |-> c - 1,
                    overtaken |-> (last.res = "returned" /\ c <= last.older)]
  /\ UNCHANGED timeouts

InitCardSearch ==
  /\ ServiceInit
  /\ revision = "paged"
  /\ binder = createBinderFromTemplate(CHOOSE t \in Templates : t.id = "wide", 0)
  /\ page = 1
  /\ notification = ""
  /\ timerPending = FALSE
  /\ last = Invoked("init", "ok")

NextCardSearch ==
  \/ \E t \in Terms : InCardSearch /\ typeSearchTerm(t)
  \/ InCardSearch /\ handleKeyPress
  \/ InCardSearch /\ clearSearch
  \/ InCardSearch /\ handleSuggestionClick
  \/ \E m \in Strategies : InCardSearch /\ handleModeChange(m)
  \/ InCardSearch /\ modeChangeTimeout
  \/ \E d \in {-1, 1} : InCardSearch /\ changePage(d)
  \/ \E c \in CallIds, body \in Bodies : InCardSearch /\ returns(c, body)

SpecCardSearch == InitCardSearch /\ [][NextCardSearch]_allVars

\* C25: a search whose query is empty or only white space does nothing: no
\* call is made and loading flag, has-searched flag, results, total count
\* and current page stay as they are.  Prev and Next call handleSearch
\* directly; Enter first resets the current page to 1 itself.
C25_BlankSearchIsNoOp ==
  [][/\ \A d \in {-1, 1} :
          Trim(ui.searchTerm) = "" /\ changePage(d)
            => searches' = searches /\ ui' = ui
     /\ Trim(ui.searchTerm) = "" /\ handleKeyPress
          => searches' = searches /\ ui' = [ui EXCEPT !.currentPage = 1]
    ]_allVars

C25_Witness ==
  /\ last = Invoked("changePage", "noop")
  /\ ui.searchTerm = "  "
  /\ ~ui.isLoading /\ ui.hasSearched
  /\ ui.searchResults # <<>>
  /\ InFlight = {}

\* C26: an exact search for page p with page size s shows elements
\* (p-1)*s .. (p-1)*s + s - 1 of the cards its one request fetched, fewer
\* or none where the fetched list ends before, and shows the length of the
\* whole fetched list as the total count
C26_ExactPageOfBatch ==
  [][\A c \in CallIds, body \in Bodies :
       searches[c].strategy = "exact" /\ returns(c, body)
         => LET p == searches[c].page
                first == (p - 1) * PageSize
                n == IF Len(body.data) <= first THEN 0
                     ELSE IF Len(body.data) - first < PageSize
                       THEN Len(body.data) - first
                     ELSE PageSize
            IN /\ p >= 1
               /\ ui'.searchResults = [i \in 1..n |-> body.data[first + i]]
               /\ ui'.totalCount = Len(body.data)
    ]_allVars

C26_Witness ==
  /\ last.res = "returned"
  /\ ui.searchMode = "exact"
  /\ ui.currentPage = 2
  /\ ui.searchResults = <<Found3.data[3]>>
  /\ ui.totalCount = 3

C28_ReissuedInNewMode ==
  [][timeouts # <<>> /\ timeouts' = <<>>
       => \A c \in InFlight' \ InFlight :
            searches'[c].strategy = ui.searchMode
    ]_allVars

====
